---- MODULE Spec2Model ----
(***************************************************************************)
(* Model of the imagist package of gocipe/upload: the dispatcher           *)
(* (New / listen / Add), the per-job execution (execute) and the           *)
(* per-format transform (imageProcess).                                    *)
(*                                                                         *)
(* Modelling conventions                                                   *)
(*  - a call of Add is identified by its call number c \in Calls; the Job  *)
(*    value it builds is kept in job[c] while the job is alive;            *)
(*  - pc[c] is the position of the job built by call c:                    *)
(*      idle       Add not called yet                                      *)
(*      rejected   Add returned an error (lines 184-216)                   *)
(*      sending    Add is at the send  i.jobs <- job  (line 223)           *)
(*      queued     the job sits in the buffer of i.jobs, Add returned nil  *)
(*      dropped    listen received it and its key was in the map (174)     *)
(*      running    go i.execute(job) is in its loop (lines 229-248) or at  *)
(*                 the send  i.done <- path  (line 250), idx[c] telling    *)
(*                 which entry comes next                                  *)
(*      signalled  the path sits in the buffer of i.done                   *)
(*      released   listen received the path and deleted the key (172)      *)
(*  - the disk is the set files of the output files, one per path, each    *)
(*    with the variant encoded into it (none when the encoding failed);    *)
(*  - WatermarkPosition values are reached through pointers, so they live  *)
(*    in the heap positions; everything else of a Job is copied by value.  *)
(***************************************************************************)
EXTENDS Integers, Sequences, FiniteSets, TLC

VARIABLES _env, chanSize, jobsCh, doneCh, inflight, pc, ret, job, idx,
          attempted, files, positions, watermarkSize

vars == <<_env, chanSize, jobsCh, doneCh, inflight, pc, ret, job, idx,
          attempted, files, positions, watermarkSize>>

(***************************************************************************)
(* Bounds of the model                                                     *)
(***************************************************************************)
MaxAdds == 2

MaxChanSize == 1

MaxDim == 3

Calls == 1..MaxAdds

Nil == "nil"

(***************************************************************************)
(* Program constants                                                       *)
(***************************************************************************)
TypeImageJPG == "jpg"

TypeImageJPEG == "jpeg"

TypeImagePNG == "png"

Left == 0

Right == 1

Top == 2

Bottom == 3

Center == 4

NoLimit == -1

EnvironmentDEV == "dev"

EnvironmentPROD == "prod"

FallbackColor == <<0, 29, 56, 0>>

DefaultDimensions == [MinWidth |-> NoLimit, MinHeight |-> NoLimit, Formats |-> <<>>]

InitialPositions ==
    [p \in {"TopLeft", "BottomRight", "custom"} |->
        CASE p = "TopLeft" -> [Horizontal |-> Left, Vertical |-> Top, OffsetX |-> 0, OffsetY |-> 0]
          [] p = "BottomRight" -> [Horizontal |-> Right, Vertical |-> Bottom, OffsetX |-> 0, OffsetY |-> 0]
          [] OTHER -> [Horizontal |-> Top, Vertical |-> Center, OffsetX |-> 1, OffsetY |-> 0]]

PosPtrs == DOMAIN InitialPositions

(***************************************************************************)
(* The imaging library, by what its functions return                       *)
(***************************************************************************)
NRGBA(w, h) == [minX |-> 0, minY |-> 0, w |-> w, h |-> h]

Dx(img) == img.w

Dy(img) == img.h

Fill(src, w, h) ==
    IF w <= 0 \/ h <= 0 \/ src.w <= 0 \/ src.h <= 0 THEN NRGBA(0, 0) ELSE NRGBA(w, h)

\* imaging.Fit: no change when the source fits the box, otherwise the largest
\* size of the source's aspect ratio inside the box (a side that truncates to 0
\* is recomputed by Resize, rounded, at least 1)
Fit(src, maxW, maxH) ==
    IF maxW <= 0 \/ maxH <= 0 \/ src.w <= 0 \/ src.h <= 0 THEN NRGBA(0, 0)
    ELSE IF src.w <= maxW /\ src.h <= maxH THEN NRGBA(src.w, src.h)
    ELSE IF src.w * maxH > maxW * src.h
         THEN LET nh == (maxW * src.h) \div src.w
              IN  NRGBA(maxW, IF nh = 0
                              THEN (IF (2 * maxW * src.h + src.w) \div (2 * src.w) < 1 THEN 1
                                    ELSE (2 * maxW * src.h + src.w) \div (2 * src.w))
                              ELSE nh)
         ELSE LET nw == (maxH * src.w) \div src.h
              IN  NRGBA(IF nw = 0
                        THEN (IF (2 * maxH * src.w + src.h) \div (2 * src.h) < 1 THEN 1
                              ELSE (2 * maxH * src.w + src.h) \div (2 * src.h))
                        ELSE nw, maxH)

\* imaging.FormatFromFilename: the codec of the extension, or an error
FormatFromFilename(path) ==
    CASE path \in {"a.jpg"} -> "JPEG"
      [] path \in {"b.png"} -> "PNG"
      [] OTHER -> Nil

(***************************************************************************)
(* Inputs of the model                                                     *)
(***************************************************************************)
Keys == {"a.jpg", "b.png"}

\* what filetype.IsImage and image.DecodeConfig find in a buffer
Buffers ==
    { [image |-> FALSE, header |-> FALSE, type |-> "", Width |-> 0, Height |-> 0],
      [image |-> TRUE, header |-> FALSE, type |-> "", Width |-> 0, Height |-> 0],
      [image |-> TRUE, header |-> TRUE, type |-> "gif", Width |-> 2, Height |-> 2],
      [image |-> TRUE, header |-> TRUE, type |-> "png", Width |-> 3, Height |-> 3],
      [image |-> TRUE, header |-> TRUE, type |-> "jpeg", Width |-> 3, Height |-> 3] }

FormatDimensions(n, w, h, b, wm) ==
    [Name |-> n, Width |-> w, Height |-> h, Backdrop |-> b, Watermark |-> wm]

\* the *ImageDimensions arguments callers pass to Add
DimensionsArgs ==
    { [MinWidth |-> 4, MinHeight |-> NoLimit,
       Formats |-> << FormatDimensions("thumb", 2, 4, FALSE, Nil) >>],
      [MinWidth |-> 3, MinHeight |-> 4,
       Formats |-> << FormatDimensions("zero", 0, 2, TRUE, "TopLeft"),
                      FormatDimensions("banner", 3, 1, FALSE, Nil) >>] }

BackdropAsset == NRGBA(5, 4)

\* what the file system and the asset provider answer during one imageProcess
Outcomes ==
    [open : BOOLEAN, back : {"ok", "openfail", "decodefail"},
     wm : {"ok", "openfail", "decodefail"}, create : BOOLEAN, encode : BOOLEAN]

NoFault == [open |-> TRUE, back |-> "ok", wm |-> "ok", create |-> TRUE, encode |-> TRUE]

\* the outcomes one call can tell apart: the answers it never asks for are fixed
OutcomesFor(format, landscape) ==
    { o \in Outcomes :
        /\ (~(format.Backdrop /\ ~landscape)) => o.back = "ok"
        /\ (format.Watermark = Nil) => o.wm = "ok" }

(***************************************************************************)
(* Add, lines 183-226: the validation                                      *)
(***************************************************************************)
AcceptedType(imgType) == imgType \in {TypeImageJPG, TypeImageJPEG, TypeImagePNG}

\* a floor check that also enforces the no-limit sentinel as a floor of 4
BelowMinNoSentinel(min, actual) == actual < (IF min = NoLimit THEN 4 ELSE min)

BelowMin(min, actual) == min # NoLimit /\ actual < min

\* the error Add returns, Nil when it goes on to enqueue the job
AddError(buf, dimensions, validate) ==
    IF ~buf.image THEN "image type invalid"
    ELSE IF ~buf.header THEN "decode error"
    ELSE IF ~AcceptedType(buf.type) THEN "image type invalid: " \o buf.type
    ELSE IF validate /\ BelowMin(dimensions.MinWidth, buf.Width) THEN "image width less than min"
    ELSE IF validate /\ BelowMin(dimensions.MinHeight, buf.Height) THEN "image height less than min"
    ELSE Nil

(***************************************************************************)
(* imageProcess, lines 253-369                                             *)
(***************************************************************************)
\* lines 271-282: whether loading the backdrop asset left err # nil
BackdropLoadFails(env, o) ==
    IF env = EnvironmentDEV THEN o.back # "ok"
    ELSE LET staticAsset == IF o.back = "openfail" THEN Nil ELSE "file"
         IN  staticAsset = Nil \/ o.back = "decodefail"

\* a backdrop step that takes the asset for loaded whatever happened
BaseImageNoFallback(env, src, newWidth, newHeight, landscape, format, o) ==
    IF format.Backdrop /\ ~landscape
    THEN LET fg == Fit(src, newWidth, newHeight)
             back == Fill(BackdropAsset, format.Width, format.Height)
         IN  [img |-> NRGBA(Dx(back), Dy(back)), back |-> <<"asset">>,
              fg |-> <<Dx(fg), Dy(fg)>>]
    ELSE [img |-> Fill(src, newWidth, newHeight), back |-> <<>>, fg |-> <<>>]

\* lines 265-297: the image before the watermark step
BaseImage(env, src, newWidth, newHeight, landscape, format, o) ==
    IF format.Backdrop /\ ~landscape
    THEN LET fg == Fit(src, newWidth, newHeight)
             fails == BackdropLoadFails(env, o)
             back == IF fails THEN NRGBA(format.Width, format.Height)
                     ELSE Fill(BackdropAsset, format.Width, format.Height)
         IN  [img |-> NRGBA(Dx(back), Dy(back)),
              back |-> IF fails THEN <<"solid", FallbackColor>> ELSE <<"asset">>,
              fg |-> <<Dx(fg), Dy(fg)>>]
    ELSE [img |-> Fill(src, newWidth, newHeight), back |-> <<>>, fg |-> <<>>]

\* lines 301-311: "return" when the step returns an error, "skip" when it leaves
\* err # nil, "ok" when the watermark image is loaded
WatermarkLoad(env, o) ==
    IF env = EnvironmentDEV THEN (IF o.wm = "ok" THEN "ok" ELSE "skip")
    ELSE IF o.wm = "openfail" THEN "return"
    ELSE IF o.wm = "decodefail" THEN "skip"
    ELSE "ok"

\* a Right anchor that adds the offset instead of subtracting it
WatermarkXAdds(pos, bg, watermarkW) ==
    CASE pos.Horizontal = Left -> 0 + pos.OffsetX
      [] pos.Horizontal = Right -> (bg.minX + Dx(bg) - watermarkW) + pos.OffsetX
      [] pos.Horizontal = Center -> (bg.minX + Dx(bg) \div 2) - watermarkW \div 2 + pos.OffsetX
      [] OTHER -> 0 + pos.OffsetX

\* lines 323-335
WatermarkX(pos, bg, watermarkW) ==
    CASE pos.Horizontal = Left -> 0 + pos.OffsetX
      [] pos.Horizontal = Right -> (bg.minX + Dx(bg) - watermarkW) - pos.OffsetX
      [] pos.Horizontal = Center -> (bg.minX + Dx(bg) \div 2) - watermarkW \div 2 + pos.OffsetX
      [] OTHER -> 0 + pos.OffsetX

\* lines 337-349
WatermarkY(pos, bg, watermarkH) ==
    CASE pos.Vertical = Top -> 0 + pos.OffsetY
      [] pos.Vertical = Bottom -> (bg.minY + Dy(bg) - watermarkH) - pos.OffsetY
      [] pos.Vertical = Center -> (bg.minY + Dy(bg) \div 2) - watermarkH \div 2 + pos.OffsetY
      [] OTHER -> 0 + pos.OffsetY

\* lines 325 and 339: the default branches assign through the pointer
Normalized(pos) ==
    [pos EXCEPT !.Horizontal = IF @ \in {Left, Right, Center} THEN @ ELSE Left,
                !.Vertical = IF @ \in {Top, Bottom, Center} THEN @ ELSE Top]

\* The whole function. pos is the value format.Watermark points to (read only
\* when the pointer is not nil), wmSize the size of the image the watermark
\* asset decodes to. The result: err, the returned error (Nil for
\* nil); created, whether os.Create made the output file; content, what was
\* encoded into it (<<>> for none); pos, the value format.Watermark points to
\* afterwards.
ImageProcess(env, imgDiskPath, src, newWidth, newHeight, landscape, format, pos, wmSize, o) ==
    IF ~o.open
    THEN [err |-> "image open error", created |-> FALSE, content |-> <<>>, pos |-> pos]
    ELSE
    LET base == BaseImage(env, src, newWidth, newHeight, landscape, format, o)
        load == IF format.Watermark = Nil THEN "none" ELSE WatermarkLoad(env, o)
        wm == IF load = "ok"
              THEN <<WatermarkX(pos, base.img, wmSize[1]),
                     WatermarkY(pos, base.img, wmSize[2]), wmSize[1], wmSize[2]>>
              ELSE <<>>
        after == IF load = "ok" THEN Normalized(pos) ELSE pos
        imagingFormat == FormatFromFilename(imgDiskPath)
        variant == [w |-> Dx(base.img), h |-> Dy(base.img), back |-> base.back,
                    fg |-> base.fg, wm |-> wm, codec |-> imagingFormat]
    IN  IF load = "return"
        THEN [err |-> "watermark not found", created |-> FALSE, content |-> <<>>, pos |-> pos]
        ELSE IF imagingFormat = Nil
        THEN [err |-> "image get format error", created |-> FALSE, content |-> <<>>, pos |-> after]
        ELSE IF ~o.create
        THEN [err |-> "image get format error", created |-> FALSE, content |-> <<>>, pos |-> after]
        ELSE IF ~o.encode
        THEN [err |-> "encode error", created |-> TRUE, content |-> <<>>, pos |-> after]
        ELSE [err |-> Nil, created |-> TRUE, content |-> <<variant>>, pos |-> after]

(***************************************************************************)
(* The state machine                                                       *)
(***************************************************************************)
NoJob == [FileDiskPath |-> Nil, Config |-> [Width |-> 0, Height |-> 0],
          Dimensions |-> DefaultDimensions]

\* New, lines 146-163: both channels get the capacity s, listen starts with an
\* empty map; _env is EnvironmentDEV until SetEnv is called (line 69)
Init ==
    /\ _env = EnvironmentDEV
    /\ chanSize \in 0..MaxChanSize
    /\ jobsCh = <<>>
    /\ doneCh = <<>>
    /\ inflight = {}
    /\ pc = [c \in Calls |-> "idle"]
    /\ ret = [c \in Calls |-> "none"]
    /\ job = [c \in Calls |-> NoJob]
    /\ idx = [c \in Calls |-> 0]
    /\ attempted = [c \in Calls |-> <<>>]
    /\ files = {}
    /\ positions = InitialPositions
    /\ watermarkSize = <<1, 1>>

\* Add, lines 183-222: from the call to the error return or to the send
AddWith(c, buf, fileDiskPath, dimArg, validate) ==
    LET dimensions == IF dimArg = <<>> THEN DefaultDimensions ELSE dimArg[1]
        err == AddError(buf, dimensions, validate)
    IN  /\ pc[c] = "idle"
        /\ \A d \in 1..(c - 1) : pc[d] # "idle"
        /\ IF err # Nil
           THEN /\ pc' = [pc EXCEPT ![c] = "rejected"]
                /\ ret' = [ret EXCEPT ![c] = err]
                /\ job' = job
           ELSE /\ pc' = [pc EXCEPT ![c] = "sending"]
                /\ ret' = ret
                /\ job' = [job EXCEPT ![c] =
                              [FileDiskPath |-> fileDiskPath,
                               Config |-> [Width |-> buf.Width, Height |-> buf.Height],
                               Dimensions |-> dimensions]]
        /\ UNCHANGED <<_env, chanSize, jobsCh, doneCh, inflight, idx, attempted, files, positions, watermarkSize>>

DimArgs == {<<>>} \cup {<<d>> : d \in DimensionsArgs}

AddCall(c) ==
    \E buf \in Buffers, fileDiskPath \in Keys, dimArg \in DimArgs, validate \in BOOLEAN :
        AddWith(c, buf, fileDiskPath, dimArg, validate)

\* a send on a channel of capacity chanSize goes through when the buffer has room
HasRoom(ch) == Len(ch) < chanSize

\* Add, lines 223-225: the send into the buffer of i.jobs, then return nil
AddSend(c) ==
    /\ pc[c] = "sending"
    /\ HasRoom(jobsCh)
    /\ jobsCh' = Append(jobsCh, c)
    /\ pc' = [pc EXCEPT ![c] = "queued"]
    /\ ret' = [ret EXCEPT ![c] = Nil]
    /\ UNCHANGED <<_env, chanSize, doneCh, inflight, job, idx, attempted, files, positions, watermarkSize>>

\* a listen that starts every job it receives
AdmitsAlways(map, key) == TRUE

\* listen, line 174: the job is started when its key is not in the map
Admits(map, key) == key \notin map

\* listen, lines 174-177, on the job of call c
Receive(c) ==
    IF Admits(inflight, job[c].FileDiskPath)
    THEN /\ inflight' = inflight \cup {job[c].FileDiskPath}
         /\ pc' = [pc EXCEPT ![c] = "running"]
         /\ idx' = [idx EXCEPT ![c] = 1]
         /\ job' = job
    ELSE /\ inflight' = inflight
         /\ pc' = [pc EXCEPT ![c] = "dropped"]
         /\ idx' = idx
         /\ job' = [job EXCEPT ![c] = NoJob]

\* listen, line 173, a job taken from the buffer
ListenJob ==
    /\ jobsCh # <<>>
    /\ Receive(Head(jobsCh))
    /\ jobsCh' = Tail(jobsCh)
    /\ UNCHANGED <<_env, chanSize, doneCh, ret, attempted, files, positions, watermarkSize>>

\* listen, line 173, on an unbuffered channel: the send of line 223 and the
\* receive happen together
ListenJobSync(c) ==
    /\ chanSize = 0
    /\ pc[c] = "sending"
    /\ Receive(c)
    /\ ret' = [ret EXCEPT ![c] = Nil]
    /\ UNCHANGED <<_env, chanSize, jobsCh, doneCh, attempted, files, positions, watermarkSize>>

\* a check that lets an entry of height 0 or less through
SkipEntryNoHeight(format) == format.Name = "" \/ format.Width <= 0

\* execute, line 230
SkipEntry(format) == format.Name = "" \/ format.Width <= 0 \/ format.Height <= 0

\* execute, lines 234-240
NewWidth(config, format) ==
    IF config.Width < format.Width THEN config.Width ELSE format.Width

\* execute, lines 235-243
NewHeight(config, format) ==
    IF config.Height < config.Height THEN config.Height ELSE format.Height

\* execute, line 245
Landscape(config) == config.Height < config.Width

OutputPath(imgDiskPath, format) == imgDiskPath \o ":" \o format.Name

\* the image imaging.Open reads at the job's path: the upload Add validated
SourceImage(j) == NRGBA(j.Config.Width, j.Config.Height)

\* the result of line 247 for the current entry of job c under outcome o
ProcessEntry(c, o) ==
    LET j == job[c]
        format == j.Dimensions.Formats[idx[c]]
        pos == IF format.Watermark = Nil THEN InitialPositions["TopLeft"]
               ELSE positions[format.Watermark]
    IN  ImageProcess(_env, j.FileDiskPath, SourceImage(j), NewWidth(j.Config, format),
                     NewHeight(j.Config, format), Landscape(j.Config), format, pos,
                     watermarkSize, o)

InLoop(c) == pc[c] = "running" /\ idx[c] <= Len(job[c].Dimensions.Formats)

AtDone(c) == pc[c] = "running" /\ idx[c] > Len(job[c].Dimensions.Formats)

\* execute, lines 229-248: one iteration of the loop, under outcome o
ExecFormatWith(c, o) ==
    /\ InLoop(c)
    /\ LET format == job[c].Dimensions.Formats[idx[c]]
       IN  IF SkipEntry(format)
           THEN /\ o = NoFault
                /\ UNCHANGED <<attempted, files, positions>>
           ELSE LET r == ProcessEntry(c, o)
                    path == OutputPath(job[c].FileDiskPath, format)
                IN  /\ o \in OutcomesFor(format, Landscape(job[c].Config))
                    /\ attempted' = [attempted EXCEPT ![c] = Append(@, idx[c])]
                    /\ files' = IF r.created
                                THEN {f \in files : f.path # path}
                                     \cup {[path |-> path, content |-> r.content]}
                                ELSE files
                    /\ positions' = IF format.Watermark = Nil THEN positions
                                    ELSE [positions EXCEPT ![format.Watermark] = r.pos]
    /\ idx' = [idx EXCEPT ![c] = @ + 1]
    /\ UNCHANGED <<_env, chanSize, jobsCh, doneCh, inflight, pc, ret, job, watermarkSize>>

ExecFormat(c) == \E o \in Outcomes : ExecFormatWith(c, o)

\* an execute that ends without sending its path
ExecDoneNoSignal(c) ==
    /\ AtDone(c)
    /\ HasRoom(doneCh)
    /\ pc' = [pc EXCEPT ![c] = "signalled"]
    /\ UNCHANGED <<_env, chanSize, jobsCh, doneCh, inflight, ret, job, idx, attempted, files, positions, watermarkSize>>

\* execute, line 250: the send into the buffer of i.done
ExecDone(c) ==
    /\ AtDone(c)
    /\ HasRoom(doneCh)
    /\ doneCh' = Append(doneCh, c)
    /\ pc' = [pc EXCEPT ![c] = "signalled"]
    /\ UNCHANGED <<_env, chanSize, jobsCh, inflight, ret, job, idx, attempted, files, positions, watermarkSize>>

\* listen, lines 171-172, on the path sent by the execution of call c
Release(c) ==
    /\ inflight' = inflight \ {job[c].FileDiskPath}
    /\ pc' = [pc EXCEPT ![c] = "released"]
    /\ job' = [job EXCEPT ![c] = NoJob]
    /\ idx' = [idx EXCEPT ![c] = 0]
    /\ attempted' = [attempted EXCEPT ![c] = <<>>]

\* listen, line 171, a path taken from the buffer
ListenDone ==
    /\ doneCh # <<>>
    /\ Release(Head(doneCh))
    /\ doneCh' = Tail(doneCh)
    /\ UNCHANGED <<_env, chanSize, jobsCh, ret, files, positions, watermarkSize>>

\* listen, line 171, on an unbuffered channel: the send of line 250 and the
\* receive happen together
ListenDoneSync(c) ==
    /\ chanSize = 0
    /\ AtDone(c)
    /\ Release(c)
    /\ UNCHANGED <<_env, chanSize, jobsCh, doneCh, ret, files, positions, watermarkSize>>

Next ==
    \/ \E c \in Calls : AddCall(c)
    \/ \E c \in Calls : AddSend(c)
    \/ ListenJob
    \/ \E c \in Calls : ListenJobSync(c)
    \/ \E c \in Calls : ExecFormat(c)
    \/ \E c \in Calls : ExecDone(c)
    \/ ListenDone
    \/ \E c \in Calls : ListenDoneSync(c)

Spec == Init /\ [][Next]_vars

\* the goroutine started at line 160: one turn of its loop
Listen ==
    \/ ListenJob
    \/ ListenDone
    \/ \E c \in Calls : ListenJobSync(c)
    \/ \E c \in Calls : ListenDoneSync(c)

\* the goroutine started at line 176 for the job of call c: one step of it
Execute(c) == ExecFormat(c) \/ ExecDone(c)

\* Scheduling: the listen goroutine, every execute goroutine and every caller
\* inside Add keep running while they can take a step. Nothing obliges a
\* caller to call Add.
Fairness ==
    /\ WF_vars(Listen)
    /\ \A c \in Calls : WF_vars(AddSend(c)) /\ WF_vars(Execute(c))

FairSpec == Init /\ [][Next]_vars /\ Fairness

(***************************************************************************)
(* One execution on its own: the state right after listen has started       *)
(* go i.execute(job) for the first call, the job, the environment and the  *)
(* watermark asset drawn from wider sets than the callers of Spec use      *)
(***************************************************************************)
Anchors == 0..5

Offsets == {-1, 0, 5}

WmSizes == {<<2, 3>>, <<20, 10>>}

Sides == 1..MaxDim

Requests == -1..(MaxDim + 1)

\* jobs of one entry over every size of image and of request
SizingJobs ==
    { [FileDiskPath |-> k, Config |-> [Width |-> w, Height |-> h],
       Dimensions |-> [MinWidth |-> NoLimit, MinHeight |-> NoLimit,
                       Formats |-> << FormatDimensions("v", fw, fh, b, wm) >>]] :
        k \in {"a.jpg", "c.bin"}, w \in Sides, h \in Sides, fw \in Requests, fh \in Requests,
        b \in BOOLEAN, wm \in {Nil, "TopLeft"} }

\* jobs of one watermarked entry, on a small and on a 200x100 background
AnchorJobs ==
    { [FileDiskPath |-> "b.png", Config |-> [Width |-> s[1], Height |-> s[2]],
       Dimensions |-> [MinWidth |-> NoLimit, MinHeight |-> NoLimit,
                       Formats |-> << FormatDimensions("v", s[3], s[4], b, "custom") >>]] :
        s \in {<<3, 3, 3, 2>>, <<200, 100, 200, 100>>}, b \in BOOLEAN }

AnchorPositions ==
    [Horizontal : Anchors, Vertical : Anchors, OffsetX : Offsets, OffsetY : {0, 5}]

\* the entries a job of several formats is made of: the i-th is named after i
Entries(i) ==
    { FormatDimensions(n, wh[1], wh[2], FALSE, Nil) :
        n \in {"", CASE i = 1 -> "f1" [] i = 2 -> "f2" [] OTHER -> "f3"},
        wh \in {<<2, 2>>, <<0, 2>>, <<2, -1>>} }

SeveralJobs ==
    { [FileDiskPath |-> "a.jpg", Config |-> [Width |-> 2, Height |-> 3],
       Dimensions |-> [MinWidth |-> NoLimit, MinHeight |-> NoLimit,
                       Formats |-> <<e1, e2, e3>>]] :
        e1 \in Entries(1), e2 \in Entries(2), e3 \in Entries(3) }

TransformInit ==
    /\ _env \in {EnvironmentDEV, EnvironmentPROD}
    /\ chanSize = 1
    /\ jobsCh = <<>>
    /\ doneCh = <<>>
    /\ \/ /\ \E j \in SizingJobs \cup SeveralJobs :
                 job = [c \in Calls |-> IF c = 1 THEN j ELSE NoJob]
          /\ positions = InitialPositions
          /\ watermarkSize = <<1, 1>>
       \/ /\ \E j \in AnchorJobs : job = [c \in Calls |-> IF c = 1 THEN j ELSE NoJob]
          /\ \E p \in AnchorPositions : positions = [InitialPositions EXCEPT !["custom"] = p]
          /\ watermarkSize \in WmSizes
    /\ inflight = {job[1].FileDiskPath}
    /\ pc = [c \in Calls |-> IF c = 1 THEN "running" ELSE "idle"]
    /\ ret = [c \in Calls |-> IF c = 1 THEN Nil ELSE "none"]
    /\ idx = [c \in Calls |-> IF c = 1 THEN 1 ELSE 0]
    /\ attempted = [c \in Calls |-> <<>>]
    /\ files = {}

TransformNext ==
    \/ \E c \in Calls : ExecFormat(c)
    \/ \E c \in Calls : ExecDone(c)
    \/ ListenDone

TransformSpec == TransformInit /\ [][TransformNext]_vars

(***************************************************************************)
(* Properties of the dispatcher                                            *)
(***************************************************************************)
Alive(c) == pc[c] \in {"sending", "queued", "running", "signalled"}

\* the executions of key k that have started and not yet sent on done
Executing(k) == {c \in Calls : pc[c] = "running" /\ job[c].FileDiskPath = k}

\* C1: for every key at most one execution is between its start by listen and
\* its send on the done channel
C1_OneExecutionPerKey == \A k \in Keys : Cardinality(Executing(k)) <= 1

\* C1 witness: an execution is at its first entry and a second job, for the
\* same key, was received meanwhile and not started
C1_Witness ==
    \E c1, c2 \in Calls :
        /\ pc[c1] = "running" /\ idx[c1] = 1
        /\ pc[c2] = "dropped"
        /\ c1 < c2

\* listen takes the job of call c off the jobs channel in this step
Received(c) == pc[c] \in {"sending", "queued"} /\ pc'[c] \in {"dropped", "running"}

\* C2: a job received while an execution of its key is still running is
\* dropped, the step that drops it writes nothing, a dropped job stays dropped
\* and never enters the loop, and every file written is the variant of an entry
\* of a job that is executing
C2_DuplicateDropped ==
    [][/\ \A c \in Calls :
            /\ (Received(c) /\ Executing(job[c].FileDiskPath) # {}) =>
                   (pc'[c] = "dropped" /\ files' = files /\ positions' = positions)
            /\ pc[c] = "dropped" => (pc'[c] = "dropped" /\ idx'[c] = 0 /\ attempted'[c] = <<>>)
       /\ \A f \in files' \ files :
            \E c \in Calls :
                /\ InLoop(c)
                /\ f.path = OutputPath(job[c].FileDiskPath, job[c].Dimensions.Formats[idx[c]])]_vars

\* C2 witness: the first job was executed, wrote its variant and was released,
\* the second one, received while the first ran, is dropped
C2_Witness ==
    \E c1, c2 \in Calls :
        /\ pc[c1] = "released" /\ pc[c2] = "dropped" /\ c1 < c2
        /\ \E f \in files : f.content # <<>>
        /\ jobsCh = <<>> /\ doneCh = <<>>

Min(a, b) == IF a < b THEN a ELSE b

\* C3 as claimed: every variant an execution has written has the width and the
\* height of its entry, each capped to that of the original image
C3_NoUpscale ==
    \A c \in Calls : \A f \in files :
        (pc[c] \in {"running", "signalled"} /\ f.content # <<>>) =>
            \A i \in 1..Len(job[c].Dimensions.Formats) :
                LET format == job[c].Dimensions.Formats[i]
                IN  f.path = OutputPath(job[c].FileDiskPath, format) =>
                        /\ f.content[1].w = Min(format.Width, job[c].Config.Width)
                        /\ f.content[1].h = Min(format.Height, job[c].Config.Height)

\* the validation of section 4.1, on what the buffer holds
ValidationFails(buf, dimensions, validate) ==
    \/ ~buf.image
    \/ ~buf.header
    \/ buf.type \notin {"jpg", "jpeg", "png"}
    \/ validate /\ dimensions.MinWidth # NoLimit /\ buf.Width < dimensions.MinWidth
    \/ validate /\ dimensions.MinHeight # NoLimit /\ buf.Height < dimensions.MinHeight

IsError(r) == r \notin {"none", Nil}

\* C4: Add returns an error exactly when the validation fails, and then nothing
\* is queued; otherwise it goes on to enqueue the job and returns nil, whether
\* the queue is full or the key in flight
C4_AddErrorIffInvalid ==
    [][\A c \in Calls :
          /\ (pc[c] = "idle" /\ pc'[c] # "idle") =>
              \A buf \in Buffers, k \in Keys, dimArg \in DimArgs, validate \in BOOLEAN :
                AddWith(c, buf, k, dimArg, validate) =>
                    LET d == IF dimArg = <<>> THEN DefaultDimensions ELSE dimArg[1]
                    IN  IF ValidationFails(buf, d, validate)
                        THEN pc'[c] = "rejected" /\ IsError(ret'[c]) /\ jobsCh' = jobsCh
                        ELSE pc'[c] = "sending" /\ job'[c].FileDiskPath = k
          /\ pc[c] = "rejected" => (pc'[c] = "rejected" /\ ret'[c] = ret[c])
          /\ pc[c] = "sending" => pc'[c] \in {"sending", "queued", "dropped", "running"}
          /\ (pc[c] = "sending" /\ pc'[c] # "sending") => ret'[c] = Nil
          /\ IsError(ret'[c]) <=> pc'[c] = "rejected"
          /\ pc'[c] = "rejected" => \A i \in 1..Len(jobsCh') : jobsCh'[i] # c]_vars

\* C4 witness: one call was rejected for its height with the floor enforced,
\* another, with the same floor and an image below it but the floor not
\* enforced, returned nil and its job is queued
C4_Witness ==
    \E c1, c2 \in Calls :
        /\ pc[c1] = "rejected" /\ ret[c1] = "image height less than min"
        /\ pc[c2] = "queued" /\ ret[c2] = Nil
        /\ job[c2].Dimensions.MinHeight = 4 /\ job[c2].Config.Height = 3

\* C9: whatever the capacity, the dispatcher comes to rest with no caller
\* blocked in Add and no job queued, running or waiting to be released: a
\* caller leaves Add with nil, a job leaves the dispatcher dropped or executed
\* over all its formats and released; the release takes the key out of the
\* map, and a job received when its key is not in the map is started
C9_NoDeadlock ==
    /\ <>[](\A c \in Calls : ~Alive(c))
    /\ [][\A c \in Calls :
            /\ (pc[c] = "sending" /\ pc'[c] # "sending") => ret'[c] = Nil
            /\ (Alive(c) /\ ~Alive(c)') => pc'[c] \in {"dropped", "released"}
            /\ (pc[c] \in {"dropped", "released"}) => pc'[c] = pc[c]
            /\ (pc[c] # "released" /\ pc'[c] = "released") =>
                   (job[c].FileDiskPath \notin inflight' /\ idx[c] > Len(job[c].Dimensions.Formats))
            /\ (Received(c) /\ job[c].FileDiskPath \notin inflight) => pc'[c] = "running"]_vars

\* C9 witness: on an unbuffered dispatcher a job was executed and released, and
\* a later job for the same key runs, the first one's variant being on disk
C9_Witness ==
    \E c1, c2 \in Calls :
        /\ chanSize = 0
        /\ pc[c1] = "released" /\ pc[c2] = "running" /\ idx[c2] = 1
        /\ c1 < c2
        /\ \E f \in files, i \in 1..Len(job[c2].Dimensions.Formats) :
              /\ f.path = OutputPath(job[c2].FileDiskPath, job[c2].Dimensions.Formats[i])

(***************************************************************************)
(* Properties of one execution                                             *)
(***************************************************************************)
\* the entry the loop of execution c is at
Entry(c) == job[c].Dimensions.Formats[idx[c]]

\* section 3: the entries that produce a variant
ValidEntry(format) == format.Name # "" /\ format.Width > 0 /\ format.Height > 0

\* execution c is at a valid entry
AtValidEntry(c) == InLoop(c) /\ ValidEntry(Entry(c))

\* the steps other than the asset loads succeed: the source opens, the path
\* names a codec, the output file is created and encoded
RestSucceeds(c, o) ==
    /\ o.open /\ o.create /\ o.encode
    /\ job[c].FileDiskPath \in {"a.jpg", "b.png"}

\* what line 247 returns for the current entry of c with its watermark removed
WithoutWatermark(c, o) ==
    LET j == job[c]
        format == [Entry(c) EXCEPT !.Watermark = Nil]
    IN  ImageProcess(_env, j.FileDiskPath, SourceImage(j), NewWidth(j.Config, format),
                     NewHeight(j.Config, format), Landscape(j.Config), format,
                     positions["TopLeft"], watermarkSize, o)

\* the file an execution leaves at the output path of its current entry
Written(c, fs) == {f \in fs : f.path = OutputPath(job[c].FileDiskPath, Entry(c))}

\* C5 as claimed: in either mode, when the watermark asset cannot be loaded and
\* nothing else fails, the output file is written, and written as for the same
\* entry without a watermark
C5_WatermarkFailureSkipped ==
    [][\A c \in Calls, o \in Outcomes :
          ( /\ AtValidEntry(c)
            /\ Entry(c).Watermark # Nil /\ o.wm # "ok"
            /\ RestSucceeds(c, o)
            /\ ExecFormatWith(c, o) ) =>
              \E f \in Written(c, files') :
                  /\ f.content # <<>>
                  /\ f.content[1].wm = <<>>
                  /\ f.content = WithoutWatermark(c, o).content]_vars

\* C6: on the backdrop path, in either mode, when the backdrop asset cannot be
\* opened or decoded and no other step returns an error, the variant is written
\* with a solid backdrop of the fallback colour, of the size of the entry, and
\* the fitted foreground on it
C6_BackdropFallback ==
    [][\A c \in Calls, o \in Outcomes :
          ( /\ AtValidEntry(c)
            /\ Entry(c).Backdrop /\ ~(job[c].Config.Height < job[c].Config.Width)
            /\ o.back # "ok"
            /\ RestSucceeds(c, o)
            /\ ~(Entry(c).Watermark # Nil /\ _env = EnvironmentPROD /\ o.wm = "openfail")
            /\ ExecFormatWith(c, o) ) =>
              \E f \in Written(c, files') :
                  /\ f.content # <<>>
                  /\ f.content[1].back = <<"solid", <<0, 29, 56, 0>> >>
                  /\ f.content[1].w = Entry(c).Width /\ f.content[1].h = Entry(c).Height
                  /\ Len(f.content[1].fg) = 2
                  /\ f.content[1].fg[1] >= 1 /\ f.content[1].fg[1] <= f.content[1].w
                  /\ f.content[1].fg[2] >= 1 /\ f.content[1].fg[2] <= f.content[1].h]_vars

\* C6 witness: a variant with the solid fallback backdrop, written in production
\* mode for an entry that also carries a watermark
C6_Witness ==
    \E f \in files :
        /\ f.content # <<>>
        /\ f.content[1].back = <<"solid", FallbackColor>>
        /\ f.content[1].wm # <<>>
        /\ _env = EnvironmentPROD
        /\ f.content[1].fg = <<1, 2>>

\* section 4.3 step 5: the placement point
PlacementX(h, bgW, wmW, offsetX) ==
    CASE h = Right -> (bgW - wmW) - offsetX
      [] h = Center -> bgW \div 2 - wmW \div 2 + offsetX
      [] OTHER -> offsetX

PlacementY(v, bgH, wmH, offsetY) ==
    CASE v = Bottom -> (bgH - wmH) - offsetY
      [] v = Center -> bgH \div 2 - wmH \div 2 + offsetY
      [] OTHER -> offsetY

\* C7: when the watermark asset is loaded and no step fails, the watermark is
\* composited at the point the anchors and offsets give on the background, unrecognized anchors counting as Left and Top; on a 200x100
\* background a 20x10 watermark at Right/Bottom with offsets 5,5 lands at
\* (175, 85), at Center/Center with offsets 0 at (90, 45)
C7_AnchorMath ==
    [][\A c \in Calls, o \in Outcomes :
          ( /\ AtValidEntry(c)
            /\ Entry(c).Watermark # Nil /\ o.wm = "ok"
            /\ RestSucceeds(c, o)
            /\ ExecFormatWith(c, o) ) =>
              \E f \in Written(c, files') :
                  /\ f.content # <<>>
                  /\ Len(f.content[1].wm) = 4
                  /\  LET v == f.content[1]
                          p == positions[Entry(c).Watermark]
                      IN  /\ v.wm[1] = PlacementX(p.Horizontal, v.w, v.wm[3], p.OffsetX)
                          /\ v.wm[2] = PlacementY(p.Vertical, v.h, v.wm[4], p.OffsetY)
                          /\ <<v.wm[3], v.wm[4]>> = watermarkSize
                          /\ (/\ <<v.w, v.h>> = <<200, 100>> /\ watermarkSize = <<20, 10>>
                              /\ p = [Horizontal |-> Right, Vertical |-> Bottom,
                                      OffsetX |-> 5, OffsetY |-> 5])
                             => <<v.wm[1], v.wm[2]>> = <<175, 85>>
                          /\ (/\ <<v.w, v.h>> = <<200, 100>> /\ watermarkSize = <<20, 10>>
                              /\ p = [Horizontal |-> Center, Vertical |-> Center,
                                      OffsetX |-> 0, OffsetY |-> 0])
                             => <<v.wm[1], v.wm[2]>> = <<90, 45>>]_vars

\* C7 witness: the 20x10 watermark at Right/Bottom, offsets 5,5, on a 200x100
\* background
C7_Witness ==
    /\ positions["custom"] = [Horizontal |-> Right, Vertical |-> Bottom, OffsetX |-> 5, OffsetY |-> 5]
    /\ \E f \in files :
          /\ f.content # <<>>
          /\ <<f.content[1].w, f.content[1].h>> = <<200, 100>>
          /\ f.content[1].wm = <<175, 85, 20, 10>>

\* the valid entries among the first n of a job
ValidUpTo(c, n) == {i \in 1..n : ValidEntry(job[c].Dimensions.Formats[i])}

\* C8: the entries an execution has attempted are the valid ones among those it
\* has passed, in order, whatever failed on the way, and the files it wrote are
\* at the paths of valid entries
C8_AttemptsValidEntries ==
    \A c \in Calls :
        pc[c] = "running" =>
            LET n == idx[c] - 1
                a == attempted[c]
            IN  /\ {a[i] : i \in 1..Len(a)} = ValidUpTo(c, n)
                /\ \A i, k \in 1..Len(a) : i < k => a[i] < a[k]
                /\ \A f \in files :
                      \E i \in ValidUpTo(c, n) :
                          f.path = OutputPath(job[c].FileDiskPath, job[c].Dimensions.Formats[i])

\* C8 witness: the first entry was attempted and left no file, the second is
\* invalid, the third was attempted after them and is written
C8_Witness ==
    /\ pc[1] = "running" /\ idx[1] = 4
    /\ attempted[1] = <<1, 3>>
    /\ job[1].Dimensions.Formats[2].Height = -1
    /\ \A f \in files : f.path # "a.jpg:f1"
    /\ \E f \in files : f.path = "a.jpg:f3" /\ f.content # <<>>

\* C10 as claimed: no step of an execution changes a WatermarkPosition
C10_PositionsUnchanged ==
    [][\A c \in Calls, o \in Outcomes : ExecFormatWith(c, o) => positions' = positions]_vars

====
